---- MODULE Spec2Model ----
(***************************************************************************)
(* Model of the two test runners of TA_SCRIPTS:                            *)
(*   android_scripts/android_settings_script.py  (instrumentation logs)    *)
(*   web_scripts/playwright_web.py               (structured report)       *)
(*                                                                         *)
(* Encoding of Python values                                               *)
(*   None / absent value  : <<>>        present value v : <<v>>            *)
(*   text (str)           : flat sequence of atoms; "\n" and " " are atoms *)
(*                          of their own, every other atom is a fragment   *)
(*                          without newline; "" is <<>>                    *)
(*   test identifier      : the sequence of its '_'-separated words        *)
(*   log timestamp        : record of its date part and its time of day    *)
(*   datetimes/durations  : integers, in milliseconds                      *)
(*   dict                 : record; `del d[k]` removes k from the domain   *)
(***************************************************************************)
EXTENDS Integers, Sequences, FiniteSets, TLC

(* ------------------------------ bounds --------------------------------- *)
\* longest verbose log (lines) handed to generate_json_report
MaxLines == 3
\* most nodes (suites and specs together) of a structured report's suite tree
MaxNodes == 4
\* most SIGTERM deliveries during one run
MaxSignals == 2

(* --------------------------- generic helpers --------------------------- *)
None == <<>>
Some(v) == <<v>>

Last(s) == s[Len(s)]

RECURSIVE SeqsUpTo(_, _)
\* all sequences over S of length 0..n
SeqsUpTo(S, n) ==
    IF n = 0 THEN {<<>>}
    ELSE LET shorter == SeqsUpTo(S, n - 1)
         IN  shorter \cup {Append(s, x) : s \in {t \in shorter : Len(t) = n - 1}, x \in S}

RECURSIVE Flatten(_)
Flatten(ss) == IF ss = <<>> THEN <<>> ELSE Head(ss) \o Flatten(Tail(ss))

(* ------------------------------- str ----------------------------------- *)
Whitespace == {" ", "\n", "\t"}

RECURSIVE LStrip(_)
LStrip(t) == IF t # <<>> /\ Head(t) \in Whitespace THEN LStrip(Tail(t)) ELSE t

RECURSIVE RStrip(_)
RStrip(t) ==
    IF t # <<>> /\ Last(t) \in Whitespace THEN RStrip(SubSeq(t, 1, Len(t) - 1)) ELSE t

\* str.strip()
Strip(t) == RStrip(LStrip(t))

RECURSIVE UpToNewline(_)
UpToNewline(t) ==
    IF t = <<>> \/ Head(t) = "\n" THEN <<>> ELSE <<Head(t)>> \o UpToNewline(Tail(t))

\* str.splitlines(): only its emptiness and its first element are used
SplitlinesIsEmpty(t) == t = <<>>
FirstLine(t) == UpToNewline(t)

\* `needle in text`, at the granularity of atoms
Contains(t, needle) == \E i \in 1..Len(t) : t[i] = needle

(* ----------------------- canonical report pieces ------------------------ *)
\* Fields that are opaque pass-through values (project, details, logs, videos,
\* screenshots, environment_snapshot) and the formatted passrate string are
\* not part of the model.  metadata.test_cases is the one-element list
\* [{suite_name: test_cases}], modelled as <<test_cases>>.
Msg(text) == [text |-> text]
MsgInitiated == Msg("Test suite initiated.")
MsgFinished == Msg("Test suite finished.")
MsgAborted == Msg("Test run was aborted by a termination signal.")
\* f"Test '{test}' failed: {first_line}"
MsgFailed(test, first_line) == [text |-> "Test failed", test |-> test, detail |-> first_line]

ZeroSummary ==
    [total_tests |-> 0, passed |-> 0, failed |-> 0, skipped |-> 0, retest |-> 0,
     failed_critical |-> 0]

\* caller-supplied job metadata: only the job_id key is modelled
JobIds == {"job-7"}
RunnerArgs == [job_id : {None} \cup {Some(j) : j \in JobIds}]
\* str(uuid.uuid4())
Uuids == {"uuid4"}

\* runner_args.get("job_id", str(uuid.uuid4()))
GetJobId(args, uuid) == IF args.job_id # None THEN args.job_id[1] ELSE uuid

(* ==================== Instrumentation-Log Adapter ====================== *)
\* test identifiers as they appear in the logs, split at '_'
TestNames == {<<"TC01", "open", "wifi">>, <<"TC02", "toggle">>}

\* str.capitalize() on the words of TestNames
Capitalize(w) ==
    CASE w = "open" -> "Open" [] w = "wifi" -> "Wifi" [] w = "toggle" -> "Toggle"
      [] OTHER -> w

\* ' '.join(word.capitalize() for word in test_name.split('_')[1:])
DisplayName(test_name) ==
    [i \in 1..(Len(test_name) - 1) |-> Capitalize(test_name[i + 1])]

\* timestamps of log lines, "MM-DD HH:MM:SS.mmm": the date part and the time
\* of day in milliseconds. The timestamp pattern \d{2}-\d{2}... also matches
\* month-day pairs that are no date of the current year ("02-30", "13-01",
\* "02-29" outside leap years).
Dates == {"01-01"}
Timestamps ==
    [date : Dates, ms : {0, 1001}] \cup [date : {"02-30"}, ms : {0}]

\* datetime.strptime(f"{current_year}-{timestamp}", "%Y-%m-%d %H:%M:%S.%f")
\* raises ValueError on a month-day pair that is no date
StrptimeRaises(timestamp) == timestamp.date \notin Dates
\* the datetime it returns otherwise, as milliseconds into the year
Strptime(timestamp) == timestamp.ms

\* the millisecond counts d below 2048 (the timestamps above differ by
\* less) for which the double nearest to d / 1000, multiplied by 1000, falls
\* just below d
LossyMillis ==
    {1001 + 2 * k : k \in 0..11} \cup {2002 + 4 * k : k \in 0..11}
\* int(delta.total_seconds() * 1000) for a timedelta of delta_ms
\* milliseconds: float arithmetic, then truncation toward zero
TotalMillis(delta_ms) ==
    LET magnitude == IF delta_ms < 0 THEN 0 - delta_ms ELSE delta_ms
        truncated == IF magnitude \in LossyMillis THEN magnitude - 1 ELSE magnitude
    IN  IF delta_ms < 0 THEN 0 - truncated ELSE truncated

\* one line of the verbose log: an event line matches log_pattern; an "other"
\* line does not, with or without a timestamp somewhere in it
EventLines == [ts : {Some(t) : t \in Timestamps}, kind : {"started", "finished"}, name : TestNames]
OtherLines ==
    [ts : {None} \cup {Some(t) : t \in {u \in Timestamps : u.ms = 0}}, kind : {"other"},
     name : {<<>>}]
VerboseLines == EventLines \cup OtherLines
VerboseOutputs == SeqsUpTo(VerboseLines, MaxLines)

\* error texts of failure blocks, as captured by failure_pattern's group 2
ErrAssertion == <<"java.lang.AssertionError", ": expected true", "\n", "\tat SettingsTestSuite.java", "\n">>
ErrCrash == <<"java.lang.IllegalStateException", "\n">>
ErrorTexts == {<<>>, ErrAssertion, ErrCrash}
FailureBlocks == [name : TestNames, error : ErrorTexts]
\* the "Tests run: N,  Failures: M" line, when present
TestsRunLines ==
    {None} \cup {Some([run |-> n, failures |-> m]) :
                    <<n, m>> \in {<<2, 0>>, <<2, 1>>, <<1, 2>>}}
\* summary output of `am instrument`: which end marker it holds, the
\* "Tests run" line, the numbered failure blocks
SummaryOutputs ==
    [marker : {"none"}, tests_run : {None}, blocks : {<<>>}]
    \cup [marker : {"OK"}, tests_run : TestsRunLines, blocks : {<<>>}]
    \cup [marker : {"FAILURES!!!"}, tests_run : TestsRunLines,
          blocks : {<<>>} \cup {<<b>> : b \in FailureBlocks}]

\* re.findall(timestamp pattern, verbose_output)
RECURSIVE FindTimestamps(_)
FindTimestamps(verbose) ==
    IF verbose = <<>> THEN <<>>
    ELSE Head(verbose).ts \o FindTimestamps(Tail(verbose))

\* {name: error.strip() for name, error in failure_pattern.findall(summary)}
RECURSIVE FailedTests(_)
FailedTests(blocks) ==
    IF blocks = <<>> THEN <<>>
    ELSE LET b == Last(blocks)
         IN  (b.name :> Strip(b.error)) @@ FailedTests(SubSeq(blocks, 1, Len(blocks) - 1))

\* status of a started test that has a failure block
FailureStatus(error_log) ==
    IF ~Contains(error_log, "java.lang.AssertionError") THEN "CRITICAL" ELSE "FAILED"

\* body of the `if status == 'started'` branch
OnStarted(st, failed_tests, ts, test_name) ==
    LET has_block == test_name \in DOMAIN failed_tests
        error_log == IF has_block THEN failed_tests[test_name] ELSE <<>>
        new_test ==
            [id |-> test_name[1],
             name |-> DisplayName(test_name),
             status |-> IF has_block THEN FailureStatus(error_log) ELSE "PASSED",
             logs |-> error_log,
             duration_ms |-> 0,
             _start_time |-> ts]
    IN  IF has_block /\ SplitlinesIsEmpty(error_log)
        THEN [st EXCEPT !.exc = "IndexError"]
        ELSE [st EXCEPT
                !.messages = IF has_block
                             THEN Append(@, MsgFailed(test_name, FirstLine(error_log)))
                             ELSE @,
                !.test_cases = Append(@, new_test),
                !.test_map = (test_name :> (Len(st.test_cases) + 1)) @@ @]

\* `del test_cases[index]["_start_time"]`
DelStartTime(tc) == [k \in (DOMAIN tc) \ {"_start_time"} |-> tc[k]]

\* the branch with a bug: test_map is indexed without the membership test
OnFinished_NoGuard(st, ts, test_name) ==
    IF test_name \notin DOMAIN st.test_map THEN [st EXCEPT !.exc = "KeyError"]
    ELSE LET index == st.test_map[test_name]
             tc == st.test_cases[index]
         IN  IF "_start_time" \notin DOMAIN tc THEN st
             ELSE [st EXCEPT !.test_cases[index] =
                      DelStartTime([tc EXCEPT !.duration_ms =
                                        TotalMillis(ts - tc._start_time)])]
\* body of the `elif status == 'finished'` branch
OnFinished(st, ts, test_name) ==
    IF test_name \notin DOMAIN st.test_map THEN st
    ELSE LET index == st.test_map[test_name]
             tc == st.test_cases[index]
         IN  IF "_start_time" \notin DOMAIN tc THEN st
             ELSE [st EXCEPT !.test_cases[index] =
                      DelStartTime([tc EXCEPT !.duration_ms =
                                        TotalMillis(ts - tc._start_time)])]

\* the `for line in verbose_output.splitlines()` loop: the timestamp of
\* every line that matches log_pattern is parsed before the branch on its
\* kind
RECURSIVE ScanLog(_, _, _)
ScanLog(st, failed_tests, verbose) ==
    IF verbose = <<>> \/ st.exc # "none" THEN st
    ELSE LET line == Head(verbose)
             timestamp_dt == Strptime(line.ts[1])
             next == IF line.kind = "other" THEN st
                     ELSE IF StrptimeRaises(line.ts[1]) THEN [st EXCEPT !.exc = "ValueError"]
                     ELSE IF line.kind = "started"
                     THEN OnStarted(st, failed_tests, timestamp_dt, line.name)
                     ELSE OnFinished(st, timestamp_dt, line.name)
         IN  ScanLog(next, failed_tests, Tail(verbose))

\* line 197 with a bug: the failures are not subtracted
NumPassed_NoSubtract(total_tests, num_failures) == total_tests
\* num_passed = total_tests - num_failures
NumPassed(total_tests, num_failures) == total_tests - num_failures

RECURSIVE CountCritical(_)
\* sum(1 for tc in test_cases if tc["status"] == "CRITICAL")
CountCritical(test_cases) ==
    IF test_cases = <<>> THEN 0
    ELSE (IF Head(test_cases).status = "CRITICAL" THEN 1 ELSE 0) + CountCritical(Tail(test_cases))

\* json.dump(report): a datetime left in a test case is not serializable
JsonDumpRaises(test_cases) ==
    \E i \in 1..Len(test_cases) : "_start_time" \in DOMAIN test_cases[i]

\* lines 139-142: with timestamps in the log, the first and the last one
\* are parsed, and only those
RunTimesRaise(timestamps) ==
    /\ timestamps # <<>>
    /\ StrptimeRaises(Head(timestamps)) \/ StrptimeRaises(Last(timestamps))

\* generate_json_report: [exc, report, file]; exc = "none" when it returns
\* the report, else the exception it raises; file is what is then in
\* OUTPUT_JSON_FILE
GenerateJsonReport(summary_output, verbose_output, runner_args, uuid) ==
    LET timestamps == FindTimestamps(verbose_output)
        parse_raises == RunTimesRaise(timestamps)
        \* round((end_time_dt - start_time_dt).total_seconds(), 3), in milliseconds
        duration == IF timestamps # <<>>
                    THEN Strptime(Last(timestamps)) - Strptime(Head(timestamps)) ELSE 0
        scan == ScanLog([test_cases |-> <<>>, test_map |-> <<>>,
                         messages |-> <<MsgInitiated>>, exc |-> "none"],
                        FailedTests(summary_output.blocks), verbose_output)
        matched == summary_output.tests_run # None
        total_tests == summary_output.tests_run[1].run
        num_failures == summary_output.tests_run[1].failures
        report ==
            [job_id |-> GetJobId(runner_args, uuid),
             status |-> IF ~matched THEN "UNKNOWN"
                        ELSE IF num_failures > 0 THEN "FAILED" ELSE "PASSED",
             messages |-> Append(scan.messages, MsgFinished),
             started_at |-> None,
             ended_at |-> None,
             duration_seconds |-> duration,
             progress |-> IF matched THEN <<total_tests, total_tests>> ELSE <<0, 0>>,
             metadata |->
                [test_cases |-> <<scan.test_cases>>,
                 suite_execution_summary |->
                    IF ~matched THEN ZeroSummary
                    ELSE [ZeroSummary EXCEPT
                            !.total_tests = total_tests,
                            !.passed = NumPassed(total_tests, num_failures),
                            !.failed = num_failures,
                            !.failed_critical = CountCritical(scan.test_cases)]]]
    IN  IF parse_raises
        THEN [exc |-> "ValueError", report |-> None, file |-> "absent"]
        ELSE IF scan.exc # "none"
        THEN [exc |-> scan.exc, report |-> None, file |-> "absent"]
        ELSE IF JsonDumpRaises(scan.test_cases)
        THEN [exc |-> "TypeError", report |-> Some(report), file |-> "truncated"]
        ELSE [exc |-> "none", report |-> Some(report), file |-> "written"]

\* generate_aborted_report
GenerateAbortedReport(runner_args, uuid) ==
    [job_id |-> GetJobId(runner_args, uuid),
     status |-> "ABORTED",
     messages |-> <<MsgInitiated, MsgAborted>>,
     metadata |-> [test_cases |-> <<>>, suite_execution_summary |-> ZeroSummary]]

(* ===================== Structured-Report Adapter ======================= *)
AnsiCodes == {"ESC[31m", "ESC[0m"}

RECURSIVE clean_ansi_escape_codes(_)
\* ansi_escape.sub('', text)
clean_ansi_escape_codes(text) ==
    IF text = <<>> THEN <<>>
    ELSE (IF Head(text) \in AnsiCodes THEN <<>> ELSE <<Head(text)>>)
         \o clean_ansi_escape_codes(Tail(text))

DefaultMessage == <<"No error message found.">>
DefaultStack == <<"No stack trace found.">>

\* spec['title'].replace('.', '_').replace(' ', '')
RECURSIVE SpecName(_)
SpecName(title) ==
    IF title = <<>> THEN <<>>
    ELSE (CASE Head(title) = "." -> <<"_">>
            [] Head(title) = " " -> <<>>
            [] OTHER -> <<Head(title)>>) \o SpecName(Tail(title))

\* results of a test run, as Playwright's JSON reporter writes them
ResultPassed == [status |-> "passed", error |-> None]
ResultInterrupted == [status |-> "interrupted", error |-> None]
ResultFailed ==
    [status |-> "failed",
     error |-> Some([message |-> Some(<<"ESC[31m", "Expected true", "ESC[0m", "\n", "Received false">>),
                     stack |-> Some(<<"Error: Expected true", "\n", "    at settings.spec.ts", "\n">>)])]
ResultTimedOut == [status |-> "timedOut", error |-> None]
ResultBlankError ==
    [status |-> "failed", error |-> Some([message |-> Some(<<"ESC[31m", "ESC[0m">>), stack |-> None])]

\* the specs that occur in input reports
InputSpecs ==
    {[title |-> <<"open", " ", "page">>, tests |-> <<[status |-> "expected", results |-> <<ResultPassed>>]>>],
     [title |-> <<"wifi", ".", "toggle">>, tests |-> <<[status |-> "unexpected", results |-> <<ResultFailed>>]>>],
     [title |-> <<"bluetooth">>, tests |-> <<[status |-> "unexpected", results |-> <<>>]>>],
     [title |-> <<"about">>, tests |-> <<[status |-> "skipped", results |-> <<>>]>>],
     [title |-> <<"display">>, tests |-> <<[status |-> "unexpected", results |-> <<ResultTimedOut>>]>>],
     [title |-> <<"sound">>, tests |-> <<[status |-> "skipped", results |-> <<ResultInterrupted>>]>>],
     [title |-> <<"storage">>, tests |-> <<[status |-> "unexpected", results |-> <<ResultBlankError>>]>>],
     [title |-> <<"battery">>, tests |-> <<>>]}

RECURSIVE SeqsOfLen(_, _)
SeqsOfLen(S, n) ==
    IF n = 0 THEN {<<>>} ELSE {Append(s, x) : s \in SeqsOfLen(S, n - 1), x \in S}

RECURSIVE SuitesOfSize(_), ForestsOfSize(_)
\* suites with exactly n nodes, the suite itself included
SuitesOfSize(n) ==
    UNION {[specs : SeqsOfLen(InputSpecs, k), suites : ForestsOfSize(n - 1 - k)] : k \in 0..(n - 1)}
\* lists of suites with exactly m nodes in all
ForestsOfSize(m) ==
    IF m = 0 THEN {<<>>}
    ELSE UNION {{<<s>> \o f : s \in SuitesOfSize(j), f \in ForestsOfSize(m - j)} : j \in 1..m}

SuiteLists == UNION {ForestsOfSize(m) : m \in 0..MaxNodes}

StatCounts == {0, 1}
StatsSet ==
    [startTime : {1000}, duration : {1500}, expected : StatCounts, unexpected : StatCounts,
     flaky : StatCounts, skipped : StatCounts]

\* what Playwright wrote to stdout: nothing, something json.loads rejects, or
\* a JSON report
PlaywrightReports == [kind : {"json"}, stats : StatsSet, suites : SuiteLists]
NoOutput == [kind |-> "empty"]
BadOutput == [kind |-> "malformed"]

\* get_test_status(spec)
get_test_status(spec) ==
    IF spec.tests = <<>> THEN "SKIPPED"
    ELSE LET test_run == spec.tests[1]
         IN  IF test_run.status = "skipped" /\ test_run.results = <<>> THEN "SKIPPED"
             ELSE IF test_run.results # <<>>
             THEN LET pw_status == test_run.results[1].status
                  IN  IF pw_status = "passed" THEN "PASSED"
                      ELSE IF pw_status = "interrupted" THEN "SKIPPED"
                      ELSE "FAILED"
             ELSE "FAILED"

RECURSIVE find_specs(_)
RECURSIVE FindInSuites(_)
\* find_specs with a bug: the sub-suites are visited before the suite's own specs
find_specs_SubSuitesFirst(current_suite) ==
    FindInSuites(current_suite.suites) \o current_suite.specs
\* find_specs(current_suite): its own specs, then those of its sub-suites
find_specs(current_suite) == current_suite.specs \o FindInSuites(current_suite.suites)
\* the `for sub_suite in current_suite.get('suites', [])` loop
FindInSuites(suites) ==
    IF suites = <<>> THEN <<>> ELSE find_specs(Head(suites)) \o FindInSuites(Tail(suites))

\* f"TC{i+1:02d}"
TcId(n) == <<"TC", n>>

\* does the spec take the `if test_status == 'FAILED' and results` branch
HasErrorLogs(spec) == get_test_status(spec) = "FAILED" /\ spec.tests[1].results # <<>>
\* error_details.get('message', default), cleaned
ErrorMessage(spec) ==
    LET err == spec.tests[1].results[1].error
    IN  clean_ansi_escape_codes(
            IF err # None /\ err[1].message # None THEN err[1].message[1] ELSE DefaultMessage)
ErrorStack(spec) ==
    LET err == spec.tests[1].results[1].error
    IN  clean_ansi_escape_codes(
            IF err # None /\ err[1].stack # None THEN err[1].stack[1] ELSE DefaultStack)

\* the test_case dict built for the i-th spec (1-based) of one top-level suite
TestCase(spec, i) ==
    [id |-> TcId(i),
     name |-> SpecName(spec.title),
     status |-> get_test_status(spec),
     logs |-> IF HasErrorLogs(spec)
              THEN Strip(ErrorMessage(spec)) \o <<"\n">> \o Strip(ErrorStack(spec))
              ELSE <<>>]

\* body of `for i, spec in enumerate(all_specs)` over one top-level suite
SuiteCases(all_specs) == [i \in 1..Len(all_specs) |-> TestCase(all_specs[i], i)]
SuiteMessages(all_specs) ==
    LET Failing(spec) == HasErrorLogs(spec)
        idx == {i \in 1..Len(all_specs) : Failing(all_specs[i])}
        RECURSIVE Collect(_)
        Collect(i) ==
            IF i > Len(all_specs) THEN <<>>
            ELSE (IF i \in idx
                  THEN <<MsgFailed(all_specs[i].title, FirstLine(ErrorMessage(all_specs[i])))>>
                  ELSE <<>>) \o Collect(i + 1)
    IN  Collect(1)
\* error_message.splitlines()[0] raises IndexError on an empty message
SuiteRaises(all_specs) ==
    \E i \in 1..Len(all_specs) :
        HasErrorLogs(all_specs[i]) /\ SplitlinesIsEmpty(ErrorMessage(all_specs[i]))

\* the `for suite in playwright_data.get('suites', [])` loop
RECURSIVE AllCases(_)
AllCases(suites) ==
    IF suites = <<>> THEN <<>>
    ELSE SuiteCases(find_specs(Head(suites))) \o AllCases(Tail(suites))
RECURSIVE AllMessages(_)
AllMessages(suites) ==
    IF suites = <<>> THEN <<>>
    ELSE SuiteMessages(find_specs(Head(suites))) \o AllMessages(Tail(suites))

\* the overall status with a bug: Playwright's own status words are passed on
OverallStatus_Raw(failed_count, total_run, skipped_count) ==
    IF failed_count > 0 THEN "failed"
    ELSE IF total_run = 0 /\ skipped_count > 0 THEN "skipped"
    ELSE "passed"
\* overall status from the stats
OverallStatus(failed_count, total_run, skipped_count) ==
    IF failed_count > 0 THEN "FAILED"
    ELSE IF total_run = 0 /\ skipped_count > 0 THEN "SKIPPED"
    ELSE "PASSED"

\* transform_playwright_result: [exc, report]; report = None when json.loads
\* rejects the output
transform_playwright_result(playwright_json_str, details) ==
    IF playwright_json_str.kind # "json" THEN [exc |-> "none", report |-> None]
    ELSE
    LET stats == playwright_json_str.stats
        suites == playwright_json_str.suites
        total_run == stats.expected + stats.unexpected + stats.flaky
        passed_count == stats.expected
        failed_count == stats.unexpected + stats.flaky
        skipped_count == stats.skipped
        final_result ==
            [job_id |-> "",
             status |-> OverallStatus(failed_count, total_run, skipped_count),
             messages |-> <<MsgInitiated>> \o AllMessages(suites) \o <<MsgFinished>>,
             started_at |-> Some(stats.startTime),
             ended_at |-> Some(stats.startTime + stats.duration),
             duration_seconds |-> stats.duration,
             progress |-> <<total_run, total_run + skipped_count>>,
             metadata |->
                [test_cases |-> <<AllCases(suites)>>,
                 suite_execution_summary |->
                    [total_tests |-> total_run + skipped_count,
                     passed |-> passed_count,
                     failed |-> failed_count,
                     skipped |-> skipped_count,
                     retest |-> 0,
                     failed_critical |-> failed_count]]]
    IN  IF \E i \in 1..Len(suites) : SuiteRaises(find_specs(suites[i]))
        THEN [exc |-> "IndexError", report |-> None]
        ELSE [exc |-> "none", report |-> Some(final_result)]

\* the overlay with a bug: the message is appended, the status is kept
AbortOverlay_KeepStatus(final_json_result) ==
    [final_json_result EXCEPT !.messages = Append(@, MsgAborted)]
\* the abort overlay of __main__ (lines 250-252)
AbortOverlay(final_json_result) ==
    [final_json_result EXCEPT !.status = "ABORTED", !.messages = Append(@, MsgAborted)]

(* ============================ the runners ============================== *)
VARIABLES
    runner,                       \* which script runs: "android" or "web"
    pc,                           \* position of the main flow
    termination_signal_received,  \* module-level flag of the running script
    process,                      \* instrumentation_process / playwright_process is set
    proc,                         \* the external process: "not_started", "running", "exited"
    runner_args,                  \* parsed job metadata (runner_args / job_details)
    output,                       \* summary_output / stdout_data returned by communicate()
    verbose_output,               \* android: output of `adb logcat -d -s TestRunner`
    report,                       \* the report dict built last (None or Some)
    result_file,                  \* android OUTPUT_JSON_FILE: "absent", "truncated", "written"
    printed,                      \* reports printed to stdout
    signals,                      \* history: SIGTERMs delivered so far
    flag_at_exit,                 \* history: the flag when the external process exited
    term_sent,                    \* history: a handler signalled the running external process
    in_force_stop                 \* android: handler invocations waiting in run_command

vars == <<runner, pc, termination_signal_received, process, proc, runner_args, output,
          verbose_output, report, result_file, printed, signals, flag_at_exit, term_sent,
          in_force_stop>>

Terminal == {"exit0", "exit1", "returned", "raised", "done"}

\* outputs the external processes produce in the runs of Spec
RunSummaryOutputs ==
    {s \in SummaryOutputs :
        /\ s.tests_run \in {None, Some([run |-> 2, failures |-> 0]), Some([run |-> 2, failures |-> 1])}
        /\ s.blocks \in {<<>>, <<[name |-> <<"TC01", "open", "wifi">>, error |-> ErrCrash]>>}}
RunVerboseOutputs ==
    LET started == [ts |-> Some([date |-> "01-01", ms |-> 0]), kind |-> "started",
                    name |-> <<"TC01", "open", "wifi">>]
        finished == [ts |-> Some([date |-> "01-01", ms |-> 1001]), kind |-> "finished",
                     name |-> <<"TC01", "open", "wifi">>]
    IN  {<<>>, <<started>>, <<started, finished>>}
RunPlaywrightOutputs ==
    {NoOutput, BadOutput} \cup
    {r \in PlaywrightReports :
        /\ r.stats.flaky = 0
        /\ r.stats.expected + r.stats.unexpected + r.stats.skipped <= 1
        /\ Len(r.suites) <= 1 /\ \A i \in 1..Len(r.suites) : r.suites[i].suites = <<>>
        /\ Len(Flatten([i \in 1..Len(r.suites) |-> r.suites[i].specs])) <= 1}

Init ==
    /\ runner \in {"android", "web"}
    /\ pc = "start"
    /\ termination_signal_received = FALSE
    /\ process = FALSE
    /\ proc = "not_started"
    /\ runner_args = [job_id |-> None]
    /\ output = NoOutput
    /\ verbose_output = <<>>
    /\ report = None
    /\ result_file = "absent"
    /\ printed = <<>>
    /\ signals = 0
    /\ flag_at_exit = FALSE
    /\ term_sent = FALSE
    /\ in_force_stop = 0

(* ------------------------- signal handlers ----------------------------- *)
\* the flag update with a bug: every delivery flips the flag
MarkAborted_Toggle(flag) == ~flag
\* `if not termination_signal_received: termination_signal_received = True`
MarkAborted(flag) == IF ~flag THEN TRUE ELSE flag

\* android: cleanup_and_exit(signum, frame), lines 40-49: the flag, then,
\* when instrumentation_process is set, the handler waits in run_command for
\* `am force-stop`. The handler runs in the main thread: main() stands still
\* until it returns, while the instrumentation process can exit and a
\* further SIGTERM can be handled inside the wait.
cleanup_and_exit ==
    /\ runner = "android" /\ pc \notin Terminal
    /\ signals < MaxSignals
    /\ signals' = signals + 1
    /\ termination_signal_received' = MarkAborted(termination_signal_received)
    /\ in_force_stop' = IF process THEN in_force_stop + 1 ELSE in_force_stop
    /\ UNCHANGED <<runner, pc, process, proc, runner_args, output, verbose_output, report,
                   result_file, printed, flag_at_exit, term_sent>>

\* lines 49-52: run_command returns in the innermost waiting invocation,
\* then instrumentation_process.terminate(), which signals the process only
\* while it has not exited
cleanup_and_exit_Terminate ==
    /\ runner = "android" /\ in_force_stop > 0
    /\ in_force_stop' = in_force_stop - 1
    /\ term_sent' = (term_sent \/ proc = "running")
    /\ UNCHANGED <<runner, pc, termination_signal_received, process, proc, runner_args, output,
                   verbose_output, report, result_file, printed, signals, flag_at_exit>>

\* web: graceful_shutdown_handler(signum, frame)
graceful_shutdown_handler ==
    /\ runner = "web" /\ pc \notin Terminal
    /\ signals < MaxSignals
    /\ signals' = signals + 1
    /\ termination_signal_received' = MarkAborted(termination_signal_received)
    \* os.killpg(..., SIGINT) only if playwright_process.poll() is None
    /\ term_sent' = (term_sent \/ (process /\ proc = "running"))
    /\ UNCHANGED <<runner, pc, process, proc, runner_args, output, verbose_output, report,
                   result_file, printed, flag_at_exit, in_force_stop>>

\* the external process ends, by itself or because it was signalled
ProcessExits ==
    /\ proc = "running"
    /\ proc' = "exited"
    /\ flag_at_exit' = termination_signal_received
    /\ UNCHANGED <<runner, pc, termination_signal_received, process, runner_args, output,
                   verbose_output, report, result_file, printed, signals, term_sent,
                   in_force_stop>>

(* ------------------------- android main() ------------------------------ *)
\* every step of main() waits for the handler invocations to return
\* lines 224-236: argument checks and json.loads
main_ParseArgs ==
    /\ in_force_stop = 0
    /\ runner = "android" /\ pc = "start"
    /\ \/ /\ pc' = "exit1"
          /\ UNCHANGED runner_args
       \/ /\ runner_args' \in RunnerArgs
          /\ pc' = "popen"
    /\ UNCHANGED <<runner, termination_signal_received, process, proc, output, verbose_output,
                   report, result_file, printed, signals, flag_at_exit, term_sent,
                   in_force_stop>>

\* lines 238-248: logcat -c, then subprocess.Popen forks `am instrument`;
\* the process runs from here on, while instrumentation_process is still None
main_Popen ==
    /\ in_force_stop = 0
    /\ runner = "android" /\ pc = "popen"
    /\ proc' = "running"
    /\ pc' = "store_handle"
    /\ UNCHANGED <<runner, termination_signal_received, process, runner_args, output,
                   verbose_output, report, result_file, printed, signals, flag_at_exit,
                   term_sent, in_force_stop>>

\* line 242: Popen has returned, `instrumentation_process = ...`
main_StoreHandle ==
    /\ in_force_stop = 0
    /\ runner = "android" /\ pc = "store_handle"
    /\ process' = TRUE
    /\ pc' = "communicate"
    /\ UNCHANGED <<runner, termination_signal_received, proc, runner_args, output,
                   verbose_output, report, result_file, printed, signals, flag_at_exit,
                   term_sent, in_force_stop>>

\* lines 249-250: communicate() returns once the process has exited
main_Communicate ==
    /\ in_force_stop = 0
    /\ runner = "android" /\ pc = "communicate" /\ proc = "exited"
    /\ output' \in RunSummaryOutputs
    /\ process' = FALSE
    /\ pc' = "check_flag"
    /\ UNCHANGED <<runner, termination_signal_received, proc, runner_args, verbose_output,
                   report, result_file, printed, signals, flag_at_exit, term_sent,
                   in_force_stop>>

\* line 252: `if termination_signal_received`, the one read of the flag;
\* a signal handled after it no longer changes the branch taken
main_CheckAborted ==
    /\ in_force_stop = 0
    /\ runner = "android" /\ pc = "check_flag"
    /\ pc' = IF termination_signal_received THEN "aborted_report" ELSE "check_marker"
    /\ UNCHANGED <<runner, termination_signal_received, process, proc, runner_args, output,
                   verbose_output, report, result_file, printed, signals, flag_at_exit, term_sent,
                   in_force_stop>>

\* line 253: generate_aborted_report waits on adb, then writes result.json
main_AbortedReport ==
    /\ in_force_stop = 0
    /\ runner = "android" /\ pc = "aborted_report"
    /\ \E uuid \in Uuids :
         /\ report' = Some(GenerateAbortedReport(runner_args, uuid))
         /\ result_file' = "written"
         /\ pc' = "print_aborted"
    /\ UNCHANGED <<runner, termination_signal_received, process, proc, runner_args, output,
                   verbose_output, printed, signals, flag_at_exit, term_sent,
                   in_force_stop>>

\* lines 254-256: print the aborted report, sys.exit(0)
main_PrintAborted ==
    /\ in_force_stop = 0
    /\ runner = "android" /\ pc = "print_aborted"
    /\ printed' = Append(printed, report[1])
    /\ pc' = "exit0"
    /\ UNCHANGED <<runner, termination_signal_received, process, proc, runner_args, output,
                   verbose_output, report, result_file, signals, flag_at_exit, term_sent,
                   in_force_stop>>

\* lines 258-261: return when the summary holds neither end marker
main_CheckMarker ==
    /\ in_force_stop = 0
    /\ runner = "android" /\ pc = "check_marker"
    /\ pc' = IF output.marker = "none" THEN "returned" ELSE "collect"
    /\ UNCHANGED <<runner, termination_signal_received, process, proc, runner_args, output,
                   verbose_output, report, result_file, printed, signals, flag_at_exit, term_sent,
                   in_force_stop>>

\* lines 263-274: the waits on adb, logcat -d, generate_json_report, which
\* writes result.json
main_Report ==
    /\ in_force_stop = 0
    /\ runner = "android" /\ pc = "collect"
    /\ \E verbose \in RunVerboseOutputs, uuid \in Uuids :
         LET r == GenerateJsonReport(output, verbose, runner_args, uuid)
         IN  /\ verbose_output' = verbose
             /\ report' = r.report
             /\ result_file' = r.file
             /\ pc' = IF r.exc = "none" THEN "print_report" ELSE "raised"
    /\ UNCHANGED <<runner, termination_signal_received, process, proc, runner_args, output,
                   printed, signals, flag_at_exit, term_sent,
                   in_force_stop>>

\* line 276: print the report
main_PrintReport ==
    /\ in_force_stop = 0
    /\ runner = "android" /\ pc = "print_report"
    /\ printed' = Append(printed, report[1])
    /\ pc' = "done"
    /\ UNCHANGED <<runner, termination_signal_received, process, proc, runner_args, output,
                   verbose_output, report, result_file, signals, flag_at_exit, term_sent,
                   in_force_stop>>

(* --------------------------- web __main__ ------------------------------ *)
\* lines 174-185: argument checks and json.loads
web_ParseArgs ==
    /\ runner = "web" /\ pc = "start"
    /\ \/ /\ pc' = "exit1"
          /\ UNCHANGED runner_args
       \/ /\ runner_args' \in RunnerArgs
          /\ pc' = "install"
    /\ UNCHANGED <<runner, termination_signal_received, process, proc, output, verbose_output,
                   report, result_file, printed, signals, flag_at_exit, term_sent,
                   in_force_stop>>

\* lines 189-202: npm install, exit(1) when it fails
web_NpmInstall ==
    /\ runner = "web" /\ pc = "install"
    /\ pc' \in {"popen", "exit1"}
    /\ UNCHANGED <<runner, termination_signal_received, process, proc, runner_args, output,
                   verbose_output, report, result_file, printed, signals, flag_at_exit,
                   term_sent,
                   in_force_stop>>

\* lines 204-220: subprocess.Popen forks `npx playwright test`; the
\* process runs from here on, while playwright_process is still None
web_Popen ==
    /\ runner = "web" /\ pc = "popen"
    /\ proc' = "running"
    /\ pc' = "store_handle"
    /\ UNCHANGED <<runner, termination_signal_received, process, runner_args, output,
                   verbose_output, report, result_file, printed, signals, flag_at_exit,
                   term_sent, in_force_stop>>

\* line 212: Popen has returned, `playwright_process = ...`
web_StoreHandle ==
    /\ runner = "web" /\ pc = "store_handle"
    /\ process' = TRUE
    /\ pc' = "communicate"
    /\ UNCHANGED <<runner, termination_signal_received, proc, runner_args, output,
                   verbose_output, report, result_file, printed, signals, flag_at_exit,
                   term_sent, in_force_stop>>

\* lines 222-224: communicate() returns once the process has exited
web_Communicate ==
    /\ runner = "web" /\ pc = "communicate" /\ proc = "exited"
    /\ output' \in RunPlaywrightOutputs
    /\ process' = FALSE
    /\ pc' = "results"
    /\ UNCHANGED <<runner, termination_signal_received, proc, runner_args, verbose_output,
                   report, result_file, printed, signals, flag_at_exit, term_sent,
                   in_force_stop>>

\* lines 226-247 and 275-278: log file, exit(1) without output, transform,
\* exit(1) when it returned None
web_Results ==
    /\ runner = "web" /\ pc = "results"
    /\ IF output.kind = "empty"
       THEN /\ pc' = "exit1"
            /\ UNCHANGED report
       ELSE LET r == transform_playwright_result(output, runner_args)
            IN  IF r.exc # "none"
                THEN /\ pc' = "raised"
                     /\ UNCHANGED report
                ELSE IF r.report = None
                THEN /\ pc' = "exit1"
                     /\ UNCHANGED report
                ELSE /\ report' = r.report
                     /\ pc' = "overlay"
    /\ UNCHANGED <<runner, termination_signal_received, process, proc, runner_args, output,
                   verbose_output, result_file, printed, signals, flag_at_exit, term_sent,
                   in_force_stop>>

\* lines 250-252: `if termination_signal_received`, the one read of the
\* flag, and the abort overlay; a signal handled after it leaves the report
\* as it is
web_Overlay ==
    /\ runner = "web" /\ pc = "overlay"
    /\ report' = IF termination_signal_received
                 THEN Some(AbortOverlay(report[1])) ELSE report
    /\ pc' = "print"
    /\ UNCHANGED <<runner, termination_signal_received, process, proc, runner_args, output,
                   verbose_output, result_file, printed, signals, flag_at_exit, term_sent,
                   in_force_stop>>

\* lines 254-274: screenshots, logs field, print the report
web_Print ==
    /\ runner = "web" /\ pc = "print"
    /\ printed' = Append(printed, report[1])
    /\ pc' = "done"
    /\ UNCHANGED <<runner, termination_signal_received, process, proc, runner_args, output,
                   verbose_output, report, result_file, signals, flag_at_exit, term_sent,
                   in_force_stop>>

Next ==
    \/ cleanup_and_exit
    \/ cleanup_and_exit_Terminate
    \/ graceful_shutdown_handler
    \/ ProcessExits
    \/ main_ParseArgs
    \/ main_Popen
    \/ main_StoreHandle
    \/ main_Communicate
    \/ main_CheckAborted
    \/ main_AbortedReport
    \/ main_PrintAborted
    \/ main_CheckMarker
    \/ main_Report
    \/ main_PrintReport
    \/ web_ParseArgs
    \/ web_NpmInstall
    \/ web_Popen
    \/ web_StoreHandle
    \/ web_Communicate
    \/ web_Results
    \/ web_Overlay
    \/ web_Print

Spec == Init /\ [][Next]_vars

(* ===================== the adapters as functions ======================= *)
\* One call of an adapter function on an input drawn from the input sets.
InitAdapters ==
    /\ termination_signal_received = FALSE
    /\ process = FALSE
    /\ proc = "exited"
    /\ runner_args \in RunnerArgs
    /\ report = None
    /\ result_file = "absent"
    /\ printed = <<>>
    /\ signals = 0
    /\ flag_at_exit = FALSE
    /\ term_sent = FALSE
    /\ in_force_stop = 0
    /\ \/ /\ runner = "android" /\ pc = "call_generate_json_report"
          /\ output \in {s \in SummaryOutputs : s.marker # "none"}
          /\ verbose_output \in VerboseOutputs
       \/ /\ runner = "android" /\ pc = "call_generate_aborted_report"
          /\ output = [marker |-> "none", tests_run |-> None, blocks |-> <<>>]
          /\ verbose_output = <<>>
       \/ /\ runner = "web" /\ pc = "call_transform_playwright_result"
          /\ output \in PlaywrightReports \cup {BadOutput}
          /\ verbose_output = <<>>

call_generate_json_report ==
    /\ pc = "call_generate_json_report"
    /\ \E uuid \in Uuids :
         LET r == GenerateJsonReport(output, verbose_output, runner_args, uuid)
         IN  /\ report' = r.report
             /\ result_file' = r.file
             /\ pc' = IF r.exc = "none" THEN "returned" ELSE "raised"
    /\ UNCHANGED <<runner, termination_signal_received, process, proc, runner_args, output,
                   verbose_output, printed, signals, flag_at_exit, term_sent,
                   in_force_stop>>

call_generate_aborted_report ==
    /\ pc = "call_generate_aborted_report"
    /\ \E uuid \in Uuids :
         /\ report' = Some(GenerateAbortedReport(runner_args, uuid))
         /\ result_file' = "written"
         /\ pc' = "returned"
    /\ UNCHANGED <<runner, termination_signal_received, process, proc, runner_args, output,
                   verbose_output, printed, signals, flag_at_exit, term_sent,
                   in_force_stop>>

call_transform_playwright_result ==
    /\ pc = "call_transform_playwright_result"
    /\ LET r == transform_playwright_result(output, runner_args)
       IN  /\ report' = r.report
           /\ pc' = IF r.exc = "none" THEN "returned" ELSE "raised"
    /\ UNCHANGED <<runner, termination_signal_received, process, proc, runner_args, output,
                   verbose_output, result_file, printed, signals, flag_at_exit, term_sent,
                   in_force_stop>>

NextAdapters ==
    \/ call_generate_json_report
    \/ call_generate_aborted_report
    \/ call_transform_playwright_result

SpecAdapters == InitAdapters /\ [][NextAdapters]_vars

(* ============================== claims ================================= *)
\* the test case records of a report
Cases(r) == IF r.metadata.test_cases = <<>> THEN <<>> ELSE r.metadata.test_cases[1]
\* SpecAdapters: the adapter function has returned a report
Produced == pc = "returned" /\ report # None

\* C1: in both runners, when the abort flag was set before the external
\* process exited, every report printed has status ABORTED and its messages
\* end with the abort notice, whatever the process wrote.
C1_AbortedWhenFlaggedBeforeExit ==
    flag_at_exit =>
        \A i \in 1..Len(printed) :
            /\ printed[i].status = "ABORTED"
            /\ Last(printed[i].messages) = MsgAborted
\* a web run signalled while Playwright ran, whose output alone gives PASSED
C1_Witness ==
    /\ runner = "web" /\ pc = "done" /\ flag_at_exit /\ Len(printed) = 1
    /\ output.kind = "json"
    /\ transform_playwright_result(output, runner_args).report[1].status = "PASSED"
    /\ printed[1].status = "ABORTED"

\* C2: in every report an adapter produces (normal path and the Android
\* aborted report), total_tests = passed + failed + skipped.
C2_TotalIsSum ==
    Produced =>
        LET sm == report[1].metadata.suite_execution_summary
        IN  sm.total_tests = sm.passed + sm.failed + sm.skipped
\* an instrumentation report with failures among the tests run
C2_Witness ==
    /\ Produced /\ runner = "android"
    /\ report[1].metadata.suite_execution_summary.total_tests = 2
    /\ report[1].metadata.suite_execution_summary.failed = 1

\* C3: in every report an adapter produces, every test case record whose
\* status is FAILED or CRITICAL has non-empty logs.
C3_FailedHasLogs ==
    Produced =>
        \A i \in 1..Len(Cases(report[1])) :
            Cases(report[1])[i].status \in {"FAILED", "CRITICAL"}
                => Cases(report[1])[i].logs # <<>>

\* C4 (as claimed): the status of every report a runner prints is one of
\* PASSED, FAILED, ABORTED, UNKNOWN.
C4_StatusInFour ==
    \A i \in 1..Len(printed) : printed[i].status \in {"PASSED", "FAILED", "ABORTED", "UNKNOWN"}
\* C4 (amended): the status of every report a runner prints is one of
\* PASSED, FAILED, ABORTED, UNKNOWN, SKIPPED; SKIPPED is printed only by the
\* web runner, for stats with expected = unexpected = flaky = 0 and
\* skipped > 0.
C4_StatusInFive ==
    \A i \in 1..Len(printed) :
        /\ printed[i].status \in {"PASSED", "FAILED", "ABORTED", "UNKNOWN", "SKIPPED"}
        /\ printed[i].status = "SKIPPED" =>
              /\ runner = "web"
              /\ output.stats.expected + output.stats.unexpected + output.stats.flaky = 0
              /\ output.stats.skipped > 0
\* a web run whose report has only skipped tests
C4_Witness ==
    /\ runner = "web" /\ pc = "done" /\ Len(printed) = 1
    /\ output.stats.skipped > 0
    /\ printed[1].status = "SKIPPED"

\* C5: no test case record of the report handed to the serializer still
\* carries the temporary start-time field.
C5_NoStartTimeSerialized ==
    (runner = "android" /\ report # None) =>
        \A i \in 1..Len(Cases(report[1])) : "_start_time" \notin DOMAIN Cases(report[1])[i]

\* C6: with at least one timestamp in the verbose log, started_at is the
\* first and ended_at the last timestamp and duration_seconds their
\* difference; with none, started_at and ended_at are null and
\* duration_seconds is 0.
C6_RunTimes ==
    (Produced /\ runner = "android" /\ result_file = "written" /\ report[1].status # "ABORTED") =>
        LET timestamps == FindTimestamps(verbose_output)
        IN  IF timestamps # <<>>
            THEN /\ report[1].started_at = Some(Head(timestamps))
                 /\ report[1].ended_at = Some(Last(timestamps))
                 /\ report[1].duration_seconds =
                        Strptime(Last(timestamps)) - Strptime(Head(timestamps))
            ELSE /\ report[1].started_at = None
                 /\ report[1].ended_at = None
                 /\ report[1].duration_seconds = 0

\* C7: in every report an adapter produces, job_id is the caller's job_id
\* when one is supplied, and a generated non-empty identifier otherwise.
C7_JobId ==
    Produced =>
        IF runner_args.job_id # None
        THEN report[1].job_id = runner_args.job_id[1]
        ELSE report[1].job_id \in Uuids /\ report[1].job_id # ""

(* C8: depth-first, left-to-right order, stated on positions.  A spec's
   position is <<path, j>>: path holds the indices leading from the top-level
   list to its suite, j is its index among that suite's specs. *)
RECURSIVE SpecPositions(_, _)
SpecPositions(suites, prefix) ==
    UNION {{<<prefix \o <<i>>, j>> : j \in 1..Len(suites[i].specs)}
           \cup SpecPositions(suites[i].suites, prefix \o <<i>>) : i \in 1..Len(suites)}
RECURSIVE SuiteAt(_, _)
SuiteAt(suites, path) ==
    IF Len(path) = 1 THEN suites[path[1]] ELSE SuiteAt(suites[path[1]].suites, Tail(path))
SpecAt(suites, pos) == SuiteAt(suites, pos[1]).specs[pos[2]]
IsProperPrefix(a, b) == Len(a) < Len(b) /\ SubSeq(b, 1, Len(a)) = a
\* pos comes before other in a depth-first, left-to-right walk
Before(pos, other) ==
    LET a == pos[1]
        b == other[1]
    IN  IF a = b THEN pos[2] < other[2]
        ELSE IF IsProperPrefix(a, b) THEN TRUE
        ELSE IF IsProperPrefix(b, a) THEN FALSE
        ELSE LET d == CHOOSE k \in 1..Len(a) : a[k] # b[k] /\ \A m \in 1..(k - 1) : a[m] = b[m]
             IN  a[d] < b[d]
Rank(positions, pos) == 1 + Cardinality({q \in positions : Before(q, pos)})

\* C8: the structured-report adapter lists every spec exactly once, and the
\* spec at the k-th place of a depth-first, left-to-right walk of the input
\* (a suite's own specs, then its sub-suites in order) is the k-th test case.
C8_DepthFirstOrder ==
    (Produced /\ runner = "web") =>
        LET positions == SpecPositions(output.suites, <<>>)
            cases == Cases(report[1])
        IN  /\ Len(cases) = Cardinality(positions)
            /\ \A pos \in positions :
                  LET tc == cases[Rank(positions, pos)]
                      spec == SpecAt(output.suites, pos)
                  IN  /\ tc.name = SpecName(spec.title)
                      /\ tc.status = get_test_status(spec)
\* a report from a suite that has a spec of its own and a sub-suite with
\* another spec
C8_Witness ==
    /\ Produced /\ runner = "web" /\ output.kind = "json"
    /\ \E i \in 1..Len(output.suites) :
          LET s == output.suites[i]
          IN  /\ s.specs # <<>> /\ s.suites # <<>>
              /\ s.suites[1].specs # <<>>
              /\ s.suites[1].specs[1].title # s.specs[1].title
    /\ Len(Cases(report[1])) >= 2

\* the scan of the first n lines of the verbose log
ScanPrefix(n) ==
    ScanLog([test_cases |-> <<>>, test_map |-> <<>>, messages |-> <<MsgInitiated>>,
             exc |-> "none"],
            FailedTests(output.blocks), SubSeq(verbose_output, 1, n))
\* generate_json_report was called and went past lines 139-143 into the scan
ScanStarted ==
    /\ runner = "android" /\ pc \in {"returned", "raised"}
    /\ ~RunTimesRaise(FindTimestamps(verbose_output))
\* line n is a "finished" event of a test no earlier line started
UnmatchedFinished(n) ==
    /\ verbose_output[n].kind = "finished"
    /\ \A m \in 1..(n - 1) :
          ~(verbose_output[m].kind = "started" /\ verbose_output[m].name = verbose_output[n].name)
\* the scan takes line n into the `finished` branch (line 180): it has
\* raised on no earlier line and the timestamp of line n is a date
ReachesFinishedBranch(n) ==
    /\ UnmatchedFinished(n)
    /\ ScanPrefix(n - 1).exc = "none"
    /\ ~StrptimeRaises(verbose_output[n].ts[1])

\* C9: a "finished" event with no prior "started" event of the same test is
\* ignored by the scan: on such a logcat line (its timestamp a date, as
\* logcat writes it) no record is added, no record is changed, no error is
\* raised, and the scan goes on with the lines after it.
C9_UnmatchedFinishedIgnored ==
    ScanStarted =>
        \A n \in 1..Len(verbose_output) :
            ReachesFinishedBranch(n) =>
                /\ ScanPrefix(n).test_cases = ScanPrefix(n - 1).test_cases
                /\ ScanPrefix(n).exc = "none"
                /\ \A m \in (n + 1)..Len(verbose_output) :
                      ScanPrefix(m) =
                        ScanLog(ScanPrefix(n - 1), FailedTests(output.blocks),
                                SubSeq(verbose_output, n + 1, m))
                /\ report # None =>
                      Cases(report[1]) =
                        ScanLog(ScanPrefix(n - 1), FailedTests(output.blocks),
                                SubSeq(verbose_output, n + 1, Len(verbose_output))).test_cases
\* one test started, another test reported as finished, then the first one
\* finished: the report returned holds the first test alone, with its own
\* duration
C9_Witness ==
    /\ Produced /\ ScanStarted
    /\ Len(verbose_output) = 3
    /\ verbose_output[1].kind = "started"
    /\ ReachesFinishedBranch(2)
    /\ verbose_output[3].kind = "finished"
    /\ Len(Cases(report[1])) = 1
    /\ Cases(report[1])[1].duration_ms = 1000

\* C10: the abort flag, once true, stays true: it goes from false to true at
\* most once, however many signals are delivered.
C10_FlagNeverReset ==
    [][termination_signal_received => termination_signal_received']_vars
\* a second signal has been handled and the flag is set
C10_Witness == signals >= 2 /\ termination_signal_received

\* C11: in the structured-report adapter the k-th spec of the traversal of
\* the whole input gets the id TCk (TC01, TC02, ...), so the ids of
\* test_cases are pairwise distinct and increase along the list, with one
\* top-level suite or with several.
C11_SequentialIds ==
    (Produced /\ runner = "web") =>
        \A k \in 1..Len(Cases(report[1])) : Cases(report[1])[k].id = TcId(k)

\* C12: in every report an adapter produces, failed_critical counts a part
\* of the failures: failed_critical <= failed.
C12_CriticalWithinFailed ==
    Produced =>
        report[1].metadata.suite_execution_summary.failed_critical
            <= report[1].metadata.suite_execution_summary.failed

\* C13: the Android runner prints an ABORTED report only when a handler
\* signalled the running instrumentation process; a run whose process was
\* never signalled keeps its results.
C13_AbortedOnlyIfTerminated ==
    (runner = "android" /\ \E i \in 1..Len(printed) : printed[i].status = "ABORTED")
        => term_sent

====
